---- MODULE Spec2Model ----
(***************************************************************************)
(* The App component of src/App.tsx as a state machine: its React state    *)
(* slots, the geminiApiKey entry of localStorage, the FileReaders that are *)
(* reading a selected file, and the generateImage runs that are suspended  *)
(* at an await of the streamed response (a bag: a run has no identity      *)
(* beyond what its closure captured).                                      *)
(* The remote service is the environment: it delivers any chunk next,      *)
(* ends the stream, or fails.                                              *)
(*                                                                         *)
(* A JavaScript value that may be null or undefined is a sequence of       *)
(* length 0 (absent) or 1 (present).                                       *)
(***************************************************************************)
EXTENDS Naturals, Sequences, Bags

VARIABLES apiKey, prompt, sourceImage, resultImage, isLoading, error,
          storedKey, readers, requests, resultSource, last

(* apiKey .. error: the useState slots.  storedKey: localStorage's geminiApiKey.
   readers: the files being read, in the order they were selected.
   requests: the generateImage runs awaiting the response.
   resultSource (history): the source image of the run that set resultImage.
   last (history): the step just taken. *)
vars == <<apiKey, prompt, sourceImage, resultImage, isLoading, error,
          storedKey, readers, requests, resultSource, last>>

Null == <<>>
Some(x) == <<x>>

(* ---- bounds ---- *)
MaxReaders == 1
MaxInFlight == 2

(* ---- inputs ---- *)
Keys == {"k1", "k2"}
Prompts == {"make it wearing a hat"}
Files == {[type |-> "image/png", base64 |-> "Y2F0"],
          [type |-> "image/jpeg", base64 |-> "ZG9n"]}

(* reader.result of readAsDataURL, as the pieces that ',' separates *)
ReadAsDataURL(file) == <<"data:" \o file.type \o ";base64", file.base64>>
Join(pieces) == pieces[1] \o "," \o pieces[2]
SourceOf(file) ==
    LET base64String == ReadAsDataURL(file)
    IN  [data |-> base64String[2], mimeType |-> file.type, url |-> Join(base64String)]

(* ---- response chunks ---- *)
TextPart == [inlineData |-> Null, text |-> "thinking..."]
ImagePart(mimeType, data) ==
    [inlineData |-> Some([mimeType |-> mimeType, data |-> data]), text |-> ""]
ChunkOfParts(parts) ==
    [candidates |-> Some(<<[content |-> Some([parts |-> Some(parts)])]>>)]
NoCandidatesChunk == [candidates |-> Null]
EmptyCandidatesChunk == [candidates |-> Some(<<>>)]
NoContentChunk == [candidates |-> Some(<<[content |-> Null]>>)]
NoPartsChunk == [candidates |-> Some(<<[content |-> Some([parts |-> Null])]>>)]
TextChunk == ChunkOfParts(<<TextPart>>)
PngChunk == ChunkOfParts(<<ImagePart("image/png", "AAAA")>>)
UntypedChunk == ChunkOfParts(<<ImagePart("", "BBBB")>>)
EmptyPartsChunk == ChunkOfParts(<<>>)
TextThenImageChunk == ChunkOfParts(<<TextPart, ImagePart("image/webp", "CCCC")>>)
Chunks == {NoCandidatesChunk, EmptyCandidatesChunk, NoContentChunk, NoPartsChunk,
           EmptyPartsChunk, TextChunk, PngChunk, UntypedChunk, TextThenImageChunk}

(* values a rejected call or a failing stream throws *)
Errors == {[message |-> "Failed to fetch", json |-> "{}"],
           [message |-> "", json |-> "{}"],
           [message |-> "", json |-> ""]}
TypeErrorOfUndefined ==
    [message |-> "Cannot read properties of undefined (reading 'content')", json |-> "{}"]

MsgApiKey == "Please enter a Gemini API Key."
MsgSource == "Please select a source image."
MsgPrompt == "Please enter a prompt."
MsgNoImage == "No image generated. Please check your prompt or try again."
MsgUnknown == "An unknown error occurred."

(* ErrorText without its fallbacks *)
ErrorTextMessageOnly(err) == err.message

ErrorText(err) ==
    IF err.message # "" THEN err.message
    ELSE IF err.json # "" THEN err.json
    ELSE MsgUnknown

(* what the step just taken did: the run it ended, the chunk the run ended on, the
   value it caught and the text it put in the error slot *)
Step(op, req, chunk, err, msg) ==
    [op |-> op, req |-> req, chunk |-> chunk, err |-> err, msg |-> msg]

Init ==
    /\ storedKey \in {Null} \cup {Some(k) : k \in Keys}
    /\ apiKey = IF storedKey = Null THEN "" ELSE storedKey[1]
    /\ prompt = ""
    /\ sourceImage = Null
    /\ resultImage = Null
    /\ isLoading = FALSE
    /\ error = Null
    /\ readers = <<>>
    /\ requests = EmptyBag
    /\ resultSource = Null
    /\ last = Step("init", Null, Null, Null, "")

Remove(seq, i) == SubSeq(seq, 1, i - 1) \o SubSeq(seq, i + 1, Len(seq))
One(request) == SetToBag({request})
Event(op) == Step(op, Null, Null, Null, "")

(* ---- form fields ---- *)
SetApiKey(value) ==
    /\ apiKey' = value
    /\ last' = Event("edit")
    /\ UNCHANGED <<prompt, sourceImage, resultImage, isLoading, error, storedKey,
                   readers, requests, resultSource>>

SetPrompt(value) ==
    /\ prompt' = value
    /\ last' = Event("edit")
    /\ UNCHANGED <<apiKey, sourceImage, resultImage, isLoading, error, storedKey,
                   readers, requests, resultSource>>

(* ---- image intake ---- *)
handleImageUpload(file) ==
    /\ Len(readers) < MaxReaders
    /\ readers' = Append(readers, file)
    /\ last' = Event("handleImageUpload")
    /\ UNCHANGED <<apiKey, prompt, sourceImage, resultImage, isLoading, error,
                   storedKey, requests, resultSource>>

onloadend(i) ==
    /\ i \in 1..Len(readers)
    /\ sourceImage' = Some(SourceOf(readers[i]))
    /\ resultImage' = Null
    /\ resultSource' = Null
    /\ readers' = Remove(readers, i)
    /\ last' = Event("onloadend")
    /\ UNCHANGED <<apiKey, prompt, isLoading, error, storedKey, requests>>

(* the read failed: reader.result is null and split throws inside the callback *)
onloadendNoResult(i) ==
    /\ i \in 1..Len(readers)
    /\ readers' = Remove(readers, i)
    /\ last' = Event("onloadend")
    /\ UNCHANGED <<apiKey, prompt, sourceImage, resultImage, isLoading, error,
                   storedKey, requests, resultSource>>

(* ---- generateImage, up to its first await ---- *)
Invalid(message) ==
    /\ error' = Some(message)
    /\ last' = Step("invalid", Null, Null, Null, message)
    /\ UNCHANGED <<apiKey, prompt, sourceImage, resultImage, isLoading, storedKey,
                   readers, requests, resultSource>>

Call ==
    /\ BagCardinality(requests) < MaxInFlight
    /\ isLoading' = TRUE
    /\ error' = Null
    /\ LET request == [apiKey |-> apiKey, sourceImage |-> sourceImage[1],
                       prompt |-> prompt]
       IN  /\ requests' = requests (+) One(request)
           /\ last' = Step("call", Some(request), Null, Null, "")
    /\ UNCHANGED <<apiKey, prompt, sourceImage, resultImage, storedKey, readers,
                   resultSource>>

(* generateImage with the image checked before the credential *)
generateImageSourceFirst ==
    IF sourceImage = Null THEN Invalid(MsgSource)
    ELSE IF apiKey = "" THEN Invalid(MsgApiKey)
    ELSE IF prompt = "" THEN Invalid(MsgPrompt)
    ELSE Call

(* generateImage without setError(null) *)
generateImageKeepsError ==
    IF apiKey = "" THEN Invalid(MsgApiKey)
    ELSE IF sourceImage = Null THEN Invalid(MsgSource)
    ELSE IF prompt = "" THEN Invalid(MsgPrompt)
    ELSE
        /\ BagCardinality(requests) < MaxInFlight
        /\ isLoading' = TRUE
        /\ LET request == [apiKey |-> apiKey, sourceImage |-> sourceImage[1],
                           prompt |-> prompt]
           IN  /\ requests' = requests (+) One(request)
               /\ last' = Step("call", Some(request), Null, Null, "")
        /\ UNCHANGED <<apiKey, prompt, sourceImage, resultImage, storedKey, readers,
                       resultSource, error>>

generateImage ==
    IF apiKey = "" THEN Invalid(MsgApiKey)
    ELSE IF sourceImage = Null THEN Invalid(MsgSource)
    ELSE IF prompt = "" THEN Invalid(MsgPrompt)
    ELSE Call

(* the disabled attribute without isLoading *)
SubmitDisabledWhileIdle == sourceImage = Null \/ prompt = "" \/ apiKey = ""

(* the submit button's disabled attribute *)
SubmitDisabled == isLoading \/ sourceImage = Null \/ prompt = "" \/ apiKey = ""

ClickSubmit ==
    /\ ~SubmitDisabled
    /\ generateImage

(* the form's submit event dispatched whatever the button's state *)
OnSubmit == generateImage

(* ---- generateImage, resumed at a chunk of the stream ---- *)
GuardOutcome(chunk) ==
    IF chunk.candidates = Null THEN "continue"
    ELSE IF Len(chunk.candidates[1]) = 0 THEN "throw"
    ELSE IF chunk.candidates[1][1].content = Null THEN "continue"
    ELSE IF chunk.candidates[1][1].content[1].parts = Null THEN "continue"
    ELSE "inspect"

InlineDataOf(chunk) ==
    LET parts == chunk.candidates[1][1].content[1].parts[1]
    IN  IF Len(parts) = 0 THEN Null ELSE parts[1].inlineData

ImageUrl(inlineData) ==
    "data:" \o (IF inlineData.mimeType # "" THEN inlineData.mimeType ELSE "image/png")
            \o ";base64," \o inlineData.data

(* catch without finally *)
CaughtWithoutFinally(request, op, chunk, err) ==
    /\ error' = Some(ErrorText(err))
    /\ requests' = requests (-) One(request)
    /\ last' = Step(op, Some(request), chunk, Some(err), ErrorText(err))
    /\ UNCHANGED <<apiKey, prompt, sourceImage, resultImage, storedKey, readers,
                   resultSource, isLoading>>

(* catch and finally *)
Caught(request, op, chunk, err) ==
    /\ error' = Some(ErrorText(err))
    /\ isLoading' = FALSE
    /\ requests' = requests (-) One(request)
    /\ last' = Step(op, Some(request), chunk, Some(err), ErrorText(err))
    /\ UNCHANGED <<apiKey, prompt, sourceImage, resultImage, storedKey, readers,
                   resultSource>>

(* FoundImage storing the credential field as it is when the chunk arrives *)
FoundImageStoresCurrentKey(request, chunk) ==
    /\ resultImage' = Some(ImageUrl(InlineDataOf(chunk)[1]))
    /\ resultSource' = Some(request.sourceImage)
    /\ storedKey' = Some(apiKey)
    /\ isLoading' = FALSE
    /\ requests' = requests (-) One(request)
    /\ last' = Step("found", Some(request), Some(chunk), Null, "")
    /\ UNCHANGED <<apiKey, prompt, sourceImage, error, readers>>

FoundImage(request, chunk) ==
    /\ resultImage' = Some(ImageUrl(InlineDataOf(chunk)[1]))
    /\ resultSource' = Some(request.sourceImage)
    /\ storedKey' = Some(request.apiKey)
    /\ isLoading' = FALSE
    /\ requests' = requests (-) One(request)
    /\ last' = Step("found", Some(request), Some(chunk), Null, "")
    /\ UNCHANGED <<apiKey, prompt, sourceImage, error, readers>>

(* continue, or a chunk of text: nothing of the chunk is kept *)
Continue(request, chunk) ==
    /\ last' = Event("next")
    /\ UNCHANGED <<apiKey, prompt, sourceImage, resultImage, isLoading, error,
                   storedKey, readers, requests, resultSource>>

NextChunk(request, chunk) ==
    /\ BagIn(request, requests)
    /\ CASE GuardOutcome(chunk) = "throw" ->
                Caught(request, "chunkThrew", Some(chunk), TypeErrorOfUndefined)
         [] GuardOutcome(chunk) = "inspect" /\ InlineDataOf(chunk) # Null ->
                FoundImage(request, chunk)
         [] OTHER ->
                Continue(request, chunk)

StreamEnd(request) ==
    /\ BagIn(request, requests)
    /\ error' = Some(MsgNoImage)
    /\ isLoading' = FALSE
    /\ requests' = requests (-) One(request)
    /\ last' = Step("exhausted", Some(request), Null, Null, MsgNoImage)
    /\ UNCHANGED <<apiKey, prompt, sourceImage, resultImage, storedKey, readers,
                   resultSource>>

(* the call is rejected, or the stream fails before its next chunk *)
StreamFails(request, err) ==
    /\ BagIn(request, requests)
    /\ Caught(request, "streamFailed", Null, err)

(* every run there can be: what generateImage captured *)
Requests ==
    [apiKey : Keys, sourceImage : {SourceOf(file) : file \in Files}, prompt : Prompts]

Environment ==
    \/ \E value \in Keys \cup {""} : SetApiKey(value)
    \/ \E value \in Prompts \cup {""} : SetPrompt(value)
    \/ \E file \in Files : handleImageUpload(file)
    \/ \E i \in 1..MaxReaders : onloadend(i)
    \/ \E i \in 1..MaxReaders : onloadendNoResult(i)
    \/ \E request \in Requests, chunk \in Chunks : NextChunk(request, chunk)
    \/ \E request \in Requests : StreamEnd(request)
    \/ \E request \in Requests, err \in Errors : StreamFails(request, err)

Next ==
    \/ Environment
    \/ ClickSubmit

Spec == Init /\ [][Next]_vars

NextForm ==
    \/ Environment
    \/ OnSubmit

SpecForm == Init /\ [][NextForm]_vars

(* ======================= claims ======================= *)

(* a chunk whose structure is incomplete: no candidates (missing or an empty
   list), a first candidate without content, or content without a parts list *)
Malformed(chunk) ==
    \/ chunk.candidates = Null
    \/ chunk.candidates[1] = <<>>
    \/ chunk.candidates[1][1].content = Null
    \/ chunk.candidates[1][1].content[1].parts = Null

(* a chunk whose first part carries inline image data *)
CarriesImage(chunk) ==
    /\ ~Malformed(chunk)
    /\ chunk.candidates[1][1].content[1].parts[1] # <<>>
    /\ chunk.candidates[1][1].content[1].parts[1][1].inlineData # Null

ExpectedUrl(chunk) ==
    LET inlineData == chunk.candidates[1][1].content[1].parts[1][1].inlineData[1]
    IN  IF inlineData.mimeType = ""
        THEN "data:image/png;base64," \o inlineData.data
        ELSE "data:" \o inlineData.mimeType \o ";base64," \o inlineData.data

EndOps == {"found", "exhausted", "chunkThrew", "streamFailed"}
AnyFieldAbsent == apiKey = "" \/ sourceImage = Null \/ prompt = ""

(* C1: of the chunks a stream delivers, the first one that carries inline image
   data ends the run, with resultImage set to the data URL of that chunk, and no
   chunk before it ends the run: a run that stops on a chunk without image data
   decides every stream that goes on after that chunk, those with an image chunk
   further on included. *)
C1_FirstImageChunkWins ==
    (last.op \in EndOps /\ last.chunk # Null) =>
        /\ CarriesImage(last.chunk[1])
        /\ last.op = "found"
        /\ resultImage = Some(ExpectedUrl(last.chunk[1]))

(* C2: a malformed chunk is skipped: no run reaches the catch path on one, and no
   run ends on one. *)
C2_MalformedChunkSkipped ==
    (last.chunk # Null /\ Malformed(last.chunk[1])) =>
        (last.err = Null /\ last.op \notin EndOps)

(* C3: generateImage issues the call only when credential, image and instruction
   are all present; otherwise it issues none, leaves isLoading as it is, and sets
   the error slot to the one message of the first absent field in the order
   credential, image, instruction. *)
C3_ValidationGate ==
    [][/\ last'.op = "call" => ~AnyFieldAbsent
       /\ last'.op = "invalid" =>
            /\ AnyFieldAbsent
            /\ requests' = requests
            /\ isLoading' = isLoading
            /\ error' = Some(IF apiKey = "" THEN MsgApiKey
                             ELSE IF sourceImage = Null THEN MsgSource
                             ELSE MsgPrompt)]_vars

C3_Witness ==
    /\ last.op = "invalid"
    /\ apiKey # ""
    /\ sourceImage = Null
    /\ prompt = ""
    /\ error = Some(MsgSource)

(* C4: a result on display was generated from the source image on display. *)
C4_ResultMatchesSource ==
    resultImage # Null => sourceImage = resultSource

(* C5: at most one generation request is in flight, and the submit control is
   disabled while one is. *)
C5_SingleRequestInFlight ==
    /\ BagCardinality(requests) <= 1
    /\ requests # EmptyBag => SubmitDisabled

C5_Witness ==
    /\ BagCardinality(requests) = 1
    /\ ~AnyFieldAbsent

(* C6: a run whose stream ends, or that stops for another reason than a failure of
   the stream, without a chunk that carries image data ends with the empty-result
   condition: the 'No image generated' message in the error slot, resultImage and
   the stored credential untouched, isLoading false. *)
C6_EmptyResult ==
    [][(/\ last'.op \in {"exhausted", "chunkThrew"}
        /\ last'.chunk # Null => ~CarriesImage(last'.chunk[1]))
       => /\ error' = Some(MsgNoImage)
          /\ resultImage' = resultImage
          /\ storedKey' = storedKey
          /\ isLoading' = FALSE]_vars

(* C7: the stored credential changes only in the step of a run that found an
   image, which writes the credential the run was submitted with; every other
   step leaves it as it is. *)
C7_StoredOnlyOnSuccess ==
    [][IF last'.op = "found"
       THEN storedKey' = Some(last'.req[1].apiKey)
       ELSE storedKey' = storedKey]_vars

C7_Witness ==
    /\ last.op = "found"
    /\ apiKey # last.req[1].apiKey
    /\ storedKey = Some(last.req[1].apiKey)

(* C8: a run that ends, however it ends, leaves isLoading false, and isLoading is
   true exactly while a run is in flight. *)
C8_LoadingEndsWithRun ==
    /\ last.op \in EndOps => ~isLoading
    /\ isLoading <=> requests # EmptyBag

C8_Witness ==
    /\ last.op = "chunkThrew"
    /\ ~isLoading
    /\ ~SubmitDisabled

(* C9: a failure of the call, of the stream or of the loop puts a non-empty text
   in the error slot (the message of what was thrown, else a fallback) whatever
   the slot held, and leaves resultImage and the stored credential as they are;
   the error slot changes to a text only in a step that failed, to that step's
   text. *)
C9_FailureCaught ==
    [][/\ last'.op \in {"chunkThrew", "streamFailed"} =>
            /\ error' # Null
            /\ error'[1] # ""
            /\ \/ error'[1] = last'.err[1].message
               \/ last'.err[1].message = ""
            /\ resultImage' = resultImage
            /\ storedKey' = storedKey
       /\ last'.op \in {"chunkThrew", "streamFailed", "exhausted", "invalid"} =>
            error' = Some(last'.msg)
       /\ last'.op \notin {"chunkThrew", "streamFailed", "exhausted", "invalid"} =>
            error' \in {error, Null}]_vars

C9_Witness ==
    /\ last.op = "streamFailed"
    /\ last.err[1].message = ""
    /\ error = Some(MsgUnknown)
    /\ resultImage # Null
    /\ requests # EmptyBag

(* C10: a valid submission clears the error slot, and when its run finds an image
   the slot is empty and resultImage is set. *)
C10_NoErrorAfterImage ==
    /\ last.op = "call" => error = Null
    /\ last.op = "found" => (error = Null /\ resultImage # Null)

C10_Witness ==
    /\ last.op = "found"
    /\ last.chunk = Some(UntypedChunk)
    /\ error = Null
    /\ resultImage # Null
====
